---- MODULE Spec2Model ----
(***************************************************************************)
(* Model of lung_Cancer/print.py: the similarity score (difflib's          *)
(* SequenceMatcher.ratio), the fixed-threshold classification, the two      *)
(* pairwise2 alignments (globalxx / localxx) and main's control flow.       *)
(*                                                                         *)
(* A Python str is a TLA+ sequence of Unicode code points (ord of each     *)
(* character): "ATG" is <<65, 84, 71>>.  Indices into them are kept        *)
(* 0-based as in the Python code; s[i + 1] reads Python's s[i].            *)
(*                                                                         *)
(* A Python float similarity is kept as the exact rational it rounds:      *)
(* [num, den] stands for num / den percent.                                *)
(***************************************************************************)
EXTENDS Integers, Sequences, FiniteSets, TLC

VARIABLES pc, fn, file_exists, load_ok, reference_sequence, stdin,
          user_sequence, similarity, is_infected, global_result,
          local_result, output, exc, calls

vars == <<pc, fn, file_exists, load_ok, reference_sequence, stdin,
          user_sequence, similarity, is_infected, global_result,
          local_result, output, exc, calls>>

(***************************************************************************)
(* Bounds of the model.                                                    *)
(***************************************************************************)
MaxLen == 3

(***************************************************************************)
(* Program constants.                                                      *)
(***************************************************************************)
\* check_infection: threshold = 90.0
threshold == 90
\* SequenceMatcher(None, seq1, seq2): autojunk defaults to True and acts
\* on a second sequence of at least 200 elements
AutojunkMinLen == 200
\* pairwise2.align.globalxx / localxx: a match scores 1, a mismatch 0,
\* a gap 0
match_score == 1
mismatch_score == 0
gap_score == 0

\* "ATGC": A, T, G, C
DNA == {65, 84, 71, 67}

Min(x, y) == IF x <= y THEN x ELSE y
Max(x, y) == IF x >= y THEN x ELSE y
Max3(x, y, z) == Max(x, Max(y, z))

SetMax(S) == CHOOSE x \in S : \A y \in S : y <= x
SetMin(S) == CHOOSE x \in S : \A y \in S : x <= y

SeqsOver(alphabet, n) == UNION {[1..k -> alphabet] : k \in 0..n}

Rep(c, n) == [i \in 1..n |-> c]

\* Python's s[lo:hi] for 0 <= lo <= hi <= len(s)
Slice(s, lo, hi) == [i \in 1..(hi - lo) |-> s[lo + i]]

Range(s) == {s[i] : i \in 1..Len(s)}

(***************************************************************************)
(* difflib.SequenceMatcher(None, a, b), as calculate_similarity builds it. *)
(***************************************************************************)

\* __chain_b: isjunk is None, so bjunk stays empty
bjunk == {}

\* __chain_b: with autojunk and len(b) >= 200, every element that occurs
\* more than len(b) // 100 + 1 times in b is "popular" and loses its b2j
\* entry
bpopular(b) ==
    IF Len(b) >= AutojunkMinLen
    THEN {e \in Range(b) :
             Cardinality({j \in 1..Len(b) : b[j] = e}) > (Len(b) \div 100) + 1}
    ELSE {}

\* One pass of find_longest_match's outer loop, for row i of a: newj2len[j]
\* is the length of the longest match ending with a[i] and b[j], built from
\* the previous row's j2len; only positions of b2j[a[i]] within [blo, bhi)
\* get an entry (0 stands for no entry).  The dict is kept as a sequence
\* whose element j + 1 is the entry of j.
NewJ2Len(a, b, popular, i, blo, bhi, j2len) ==
    [jj \in 1..Len(b) |->
        LET j == jj - 1
        IN IF /\ blo <= j /\ j < bhi
              /\ b[j + 1] = a[i + 1]
              /\ a[i + 1] \notin popular
              /\ a[i + 1] \notin bjunk
           THEN (IF j = 0 THEN 0 ELSE j2len[j]) + 1
           ELSE 0] \o <<>>

\* The update "if k > bestsize" over the j of one row, j ascending: the
\* first j that reaches the row's largest k wins, if that k beats bestsize.
RowBest(i, newj2len, best) ==
    LET ks == {newj2len[jj] : jj \in 1..Len(newj2len)}
        k == IF ks = {} THEN 0 ELSE SetMax(ks)
    IN IF k > best.size
       THEN LET j == SetMin({jj \in 1..Len(newj2len) : newj2len[jj] = k}) - 1
            IN [i |-> i - k + 1, j |-> j - k + 1, size |-> k]
       ELSE best

\* The outer loop "for i in range(alo, ahi)" over rows lo .. hi - 1, from
\* the loop state st = [j2len, best].  The rows are taken in order; the
\* range is split in halves, and the first half is worked out before the
\* second starts (its bestsize is never negative), which keeps the
\* evaluation shallow on long sequences.
RECURSIVE ScanRows(_, _, _, _, _, _, _, _)
ScanRows(a, b, popular, lo, hi, blo, bhi, st) ==
    IF lo >= hi THEN st
    ELSE IF hi = lo + 1
    THEN LET newj2len == NewJ2Len(a, b, popular, lo, blo, bhi, st.j2len)
         IN [j2len |-> newj2len, best |-> RowBest(lo, newj2len, st.best)]
    ELSE LET mid == (lo + hi) \div 2
             first == ScanRows(a, b, popular, lo, mid, blo, bhi, st)
         IN IF first.best.size >= 0
            THEN ScanRows(a, b, popular, mid, hi, blo, bhi, first)
            ELSE first

\* "while besti > alo and bestj > blo and [not] isbjunk(b[bestj-1]) and
\*  a[besti-1] == b[bestj-1]"; junk selects the loop
RECURSIVE ExtendLeft(_, _, _, _, _, _)
ExtendLeft(a, b, alo, blo, junk, m) ==
    IF /\ m.i > alo /\ m.j > blo
       /\ ((b[m.j] \in bjunk) <=> junk)
       /\ a[m.i] = b[m.j]
    THEN ExtendLeft(a, b, alo, blo, junk,
                    [i |-> m.i - 1, j |-> m.j - 1, size |-> m.size + 1])
    ELSE m

\* "while besti+bestsize < ahi and bestj+bestsize < bhi and [not]
\*  isbjunk(b[bestj+bestsize]) and a[besti+bestsize] == b[bestj+bestsize]"
RECURSIVE ExtendRight(_, _, _, _, _, _)
ExtendRight(a, b, ahi, bhi, junk, m) ==
    IF /\ m.i + m.size < ahi /\ m.j + m.size < bhi
       /\ ((b[m.j + m.size + 1] \in bjunk) <=> junk)
       /\ a[m.i + m.size + 1] = b[m.j + m.size + 1]
    THEN ExtendRight(a, b, ahi, bhi, junk,
                     [i |-> m.i, j |-> m.j, size |-> m.size + 1])
    ELSE m

find_longest_match(a, b, popular, alo, ahi, blo, bhi) ==
    LET j2len0 == [jj \in 1..Len(b) |-> 0] \o <<>>
        seed == ScanRows(a, b, popular, alo, ahi, blo, bhi,
                         [j2len |-> j2len0,
                          best |-> [i |-> alo, j |-> blo, size |-> 0]]).best
        e1 == ExtendLeft(a, b, alo, blo, FALSE, seed)
        e2 == ExtendRight(a, b, ahi, bhi, FALSE, e1)
        e3 == ExtendLeft(a, b, alo, blo, TRUE, e2)
    IN ExtendRight(a, b, ahi, bhi, TRUE, e3)

\* get_matching_blocks, reduced to what ratio() reads of it: the sum of the
\* block sizes.  The queue of the code visits the same (alo, ahi, blo, bhi)
\* regions as this recursion; sorting and merging adjacent blocks leave the
\* sum unchanged.
RECURSIVE matches_in(_, _, _, _, _, _, _)
matches_in(a, b, popular, alo, ahi, blo, bhi) ==
    LET x == find_longest_match(a, b, popular, alo, ahi, blo, bhi)
    IN IF x.size = 0 THEN 0
       ELSE x.size
            + (IF alo < x.i /\ blo < x.j
               THEN matches_in(a, b, popular, alo, x.i, blo, x.j) ELSE 0)
            + (IF x.i + x.size < ahi /\ x.j + x.size < bhi
               THEN matches_in(a, b, popular, x.i + x.size, ahi,
                               x.j + x.size, bhi)
               ELSE 0)

matches(a, b) == matches_in(a, b, bpopular(b), 0, Len(a), 0, Len(b))

\* _calculate_ratio(matches, length) * 100: 2.0 * matches / length, or 1.0
\* when length is 0
ratio_times_100(m, length) ==
    IF length # 0 THEN [num |-> 200 * m, den |-> length]
    ELSE [num |-> 100, den |-> 1]

\* calculate_similarity with the length of the second sequence counted
\* twice in place of the two lengths.
calculate_similarity_len_b(seq1, seq2) ==
    ratio_times_100(matches(seq1, seq2), 2 * Len(seq2))

calculate_similarity(seq1, seq2) ==
    ratio_times_100(matches(seq1, seq2), Len(seq1) + Len(seq2))

\* x < t for the rational x and the integer t
LessThan(x, t) == x.num < t * x.den

\* check_infection with "<=" for "<".
check_infection_le(reference, user) ==
    LET s == calculate_similarity(reference, user)
    IN [is_infected |-> s.num <= threshold * s.den, similarity |-> s]

\* check_infection: is_infected = similarity < threshold
check_infection(reference, user) ==
    LET s == calculate_similarity(reference, user)
    IN [is_infected |-> LessThan(s, threshold), similarity |-> s]

(***************************************************************************)
(* Bio.pairwise2.align.globalxx / localxx, as the two alignment functions  *)
(* call them: identity scoring (match 1, mismatch 0), no gap penalties.    *)
(* A score matrix is a sequence of rows; row i, column j is M[i + 1][j + 1].*)
(***************************************************************************)

\* match_fn: identity_match(1, 0)
s_fn(x, y) == IF x = y THEN match_score ELSE mismatch_score

Cell(M, i, j) == M[i + 1][j + 1]

\* One row of the score matrix from the row above it, column by column.
\* With open = extend = 0 the row_score / col_score of the code are the
\* cell to the left and the cell above, each plus the gap score.  A local
\* alignment replaces a negative best_score by 0.
RECURSIVE FillRow(_, _, _, _, _, _)
FillRow(a, b, row, prev, cur, align_globally) ==
    LET col == Len(cur)
    IN IF col > Len(b) THEN cur
       ELSE LET nogap_score == prev[col] + s_fn(a[row], b[col])
                row_score == cur[col] + gap_score
                col_score == prev[col + 1] + gap_score
                best_score == Max3(nogap_score, col_score, row_score)
                v == IF ~align_globally /\ best_score < 0 THEN 0
                     ELSE best_score
            IN FillRow(a, b, row, prev, Append(cur, v), align_globally)

\* First row and first column: the gap scores of a global alignment
\* (penalize_end_gaps), 0 for a local one.
Border(k, align_globally) == IF align_globally THEN k * gap_score ELSE 0

RECURSIVE FillMatrix(_, _, _, _)
FillMatrix(a, b, M, align_globally) ==
    LET row == Len(M)
    IN IF row > Len(a) THEN M
       ELSE FillMatrix(a, b,
                Append(M, FillRow(a, b, row, M[row],
                                  <<Border(row, align_globally)>>,
                                  align_globally)),
                align_globally)

score_matrix(a, b, align_globally) ==
    FillMatrix(a, b,
               <<[j \in 1..(Len(b) + 1) |-> Border(j - 1, align_globally)]>>,
               align_globally)

\* The moves out of cell (i, j) that keep its score: "d" aligns a[i-1]
\* with b[j-1], "u" puts a[i-1] against a gap, "l" puts b[j-1] against a
\* gap.
Moves(a, b, M, i, j) ==
    {mv \in {"d", "u", "l"} :
        \/ /\ mv = "d" /\ i > 0 /\ j > 0
           /\ Cell(M, i - 1, j - 1) + s_fn(a[i], b[j]) = Cell(M, i, j)
        \/ /\ mv = "u" /\ i > 0
           /\ Cell(M, i - 1, j) + gap_score = Cell(M, i, j)
        \/ /\ mv = "l" /\ j > 0
           /\ Cell(M, i, j - 1) + gap_score = Cell(M, i, j)}

gap_char == 45

\* The column the move into (i, j) contributes, after the columns of the
\* alignment that leads to the cell the move comes from.
Column(a, b, i, j, mv, al) ==
    [seqA |-> Append(al.seqA, IF mv = "l" THEN gap_char ELSE a[i]),
     seqB |-> Append(al.seqB, IF mv = "u" THEN gap_char ELSE b[j])]

PrevI(i, mv) == IF mv = "l" THEN i ELSE i - 1
PrevJ(j, mv) == IF mv = "u" THEN j ELSE j - 1

\* Every traceback from (i, j) to (0, 0) along score-keeping moves.
\* pairwise2 returns a list of such alignments in an order of its own;
\* which of them comes first is left open here: alignments[0] is one of
\* them.
RECURSIVE GlobalTracebacks(_, _, _, _, _)
GlobalTracebacks(a, b, M, i, j) ==
    IF i = 0 /\ j = 0 THEN {[seqA |-> <<>>, seqB |-> <<>>]}
    ELSE UNION {
           {Column(a, b, i, j, mv, al) :
               al \in GlobalTracebacks(a, b, M, PrevI(i, mv), PrevJ(j, mv))}
           : mv \in Moves(a, b, M, i, j)}

\* pairwise2.align.globalxx(seq1, seq2): _align returns [] when either
\* sequence is empty; otherwise the alignments (seqA, seqB, score, start,
\* end), each with the score of the bottom right cell and start, end
\* spanning the whole of the aligned strings.
globalxx(seq1, seq2) ==
    IF Len(seq1) = 0 \/ Len(seq2) = 0 THEN {}
    ELSE LET M == score_matrix(seq1, seq2, TRUE)
         IN {[seqA |-> al.seqA, seqB |-> al.seqB,
              score |-> Cell(M, Len(seq1), Len(seq2)),
              start |-> 0, end |-> Len(al.seqA)] :
                al \in GlobalTracebacks(seq1, seq2, M, Len(seq1), Len(seq2))}

\* Every traceback of a local alignment from (i, j) back to the first cell
\* whose score is 0; it records the cell where it stops.
RECURSIVE LocalTracebacks(_, _, _, _, _)
LocalTracebacks(a, b, M, i, j) ==
    IF Cell(M, i, j) <= 0
    THEN {[seqA |-> <<>>, seqB |-> <<>>, i0 |-> i, j0 |-> j]}
    ELSE UNION {
           {[seqA |-> Column(a, b, i, j, mv, al).seqA,
             seqB |-> Column(a, b, i, j, mv, al).seqB,
             i0 |-> al.i0, j0 |-> al.j0] :
               al \in LocalTracebacks(a, b, M, PrevI(i, mv), PrevJ(j, mv))}
           : mv \in Moves(a, b, M, i, j)}

MatrixMax(M) == SetMax({M[i][j] : i \in 1..Len(M), j \in 1..Len(M[1])})

\* _find_start / _recover_alignments for a local alignment: the cells that
\* hold the best score, not those with a score <= 0 ("local alignments
\* should start with a positive score") and only those reached by aligning
\* two equal characters (a local alignment does not end with a gap or with
\* a zero-score extension).
LocalStarts(a, b, M) ==
    LET best == MatrixMax(M)
    IN {c \in (1..Len(a)) \X (1..Len(b)) :
          /\ Cell(M, c[1], c[2]) = best
          /\ best > 0
          /\ a[c[1]] = b[c[2]]
          /\ Cell(M, c[1] - 1, c[2] - 1) + match_score = best}

\* The alignment pairwise2 makes of a local traceback that covers
\* a[i0..i), b[j0..j) with the columns region: the rest of both sequences
\* is put before and after the region, the shorter rest filled up with
\* gaps at the outer end (_finish_backtrace, and the filling of the ends
\* in _recover_alignments); start and end are the positions of the region
\* in the aligned strings.
LocalAlignmentOf(a, b, region, i0, j0, i, j, score) ==
    LET lead == Max(i0, j0)
        tail == Max(Len(a) - i, Len(b) - j)
    IN [seqA |-> Rep(gap_char, lead - i0) \o Slice(a, 0, i0)
                 \o region.seqA
                 \o Slice(a, i, Len(a)) \o Rep(gap_char, tail - (Len(a) - i)),
        seqB |-> Rep(gap_char, lead - j0) \o Slice(b, 0, j0)
                 \o region.seqB
                 \o Slice(b, j, Len(b)) \o Rep(gap_char, tail - (Len(b) - j)),
        score |-> score,
        start |-> lead,
        end |-> lead + Len(region.seqA)]

\* pairwise2.align.localxx(seq1, seq2): [] when either sequence is empty
\* and when no cell scores above 0; otherwise the alignments (seqA, seqB,
\* score, start, end) of the best score.  A traceback begins, at a start
\* cell, with the column that aligns its two equal characters.  Which of
\* the alignments comes first is left open, as for globalxx.
localxx(seq1, seq2) ==
    IF Len(seq1) = 0 \/ Len(seq2) = 0 THEN {}
    ELSE LET M == score_matrix(seq1, seq2, FALSE)
         IN UNION {
              {LocalAlignmentOf(seq1, seq2,
                                Column(seq1, seq2, c[1], c[2], "d", al),
                                al.i0, al.j0, c[1], c[2], MatrixMax(M)) :
                  al \in LocalTracebacks(seq1, seq2, M, c[1] - 1, c[2] - 1)}
              : c \in LocalStarts(seq1, seq2, M)}

\* perform_global_alignment: alignments[0] and its score; indexing the
\* empty list raises IndexError.
perform_global_alignment(seq1, seq2) ==
    LET alignments == globalxx(seq1, seq2)
    IN IF alignments = {} THEN {[exc |-> "IndexError"]}
       ELSE {[exc |-> "none", best_alignment |-> al,
              alignment_score |-> al.score] : al \in alignments}

\* perform_local_alignment: the same over localxx.
perform_local_alignment(seq1, seq2) ==
    LET alignments == localxx(seq1, seq2)
    IN IF alignments = {} THEN {[exc |-> "IndexError"]}
       ELSE {[exc |-> "none", best_alignment |-> al,
              alignment_score |-> al.score] : al \in alignments}

(***************************************************************************)
(* load_reference_sequence and main's reading of the query.                *)
(***************************************************************************)

\* The characters str.strip() removes: chr(c).isspace() of CPython 3.11
\* (Unicode 14.0.0): \t \n \x0b \x0c \r, \x1c .. \x1f, the space, \x85,
\* \xa0, U+1680, U+2000 .. U+200A, U+2028, U+2029, U+202F, U+205F, U+3000
Whitespace ==
    {9, 10, 11, 12, 13, 28, 29, 30, 31, 32, 133, 160, 5760}
    \cup (8192..8202) \cup {8232, 8233, 8239, 8287, 12288}

\* str.strip()
RECURSIVE lstrip(_)
lstrip(s) == IF Len(s) > 0 /\ Head(s) \in Whitespace THEN lstrip(Tail(s))
             ELSE s

RECURSIVE rstrip(_)
rstrip(s) == IF Len(s) > 0 /\ s[Len(s)] \in Whitespace
             THEN rstrip(SubSeq(s, 1, Len(s) - 1))
             ELSE s

strip(s) == rstrip(lstrip(s))

\* str.upper() of CPython 3.11 (Unicode 14.0.0), character by character.
\* ToUppercase holds the characters whose uppercase is one other character:
\* <<lo, hi, step, delta>> maps every c = lo, lo + step, .. up to hi to
\* c + delta.  SpecialCasing holds the characters whose uppercase is longer
\* than one character, with that uppercase.  Every other character is left
\* as it is.
ToUppercase ==
    {
      <<97, 122, 1, -32>>, <<181, 181, 1, 743>>, <<224, 246, 1, -32>>,
      <<248, 254, 1, -32>>, <<255, 255, 1, 121>>, <<257, 303, 2, -1>>,
      <<305, 305, 1, -232>>, <<307, 311, 2, -1>>, <<314, 328, 2, -1>>,
      <<331, 375, 2, -1>>, <<378, 382, 2, -1>>, <<383, 383, 1, -300>>,
      <<384, 384, 1, 195>>, <<387, 389, 2, -1>>, <<392, 392, 1, -1>>,
      <<396, 396, 1, -1>>, <<402, 402, 1, -1>>, <<405, 405, 1, 97>>,
      <<409, 409, 1, -1>>, <<410, 410, 1, 163>>, <<414, 414, 1, 130>>,
      <<417, 421, 2, -1>>, <<424, 424, 1, -1>>, <<429, 429, 1, -1>>,
      <<432, 432, 1, -1>>, <<436, 438, 2, -1>>, <<441, 441, 1, -1>>,
      <<445, 445, 1, -1>>, <<447, 447, 1, 56>>, <<453, 453, 1, -1>>,
      <<454, 454, 1, -2>>, <<456, 456, 1, -1>>, <<457, 457, 1, -2>>,
      <<459, 459, 1, -1>>, <<460, 460, 1, -2>>, <<462, 476, 2, -1>>,
      <<477, 477, 1, -79>>, <<479, 495, 2, -1>>, <<498, 498, 1, -1>>,
      <<499, 499, 1, -2>>, <<501, 501, 1, -1>>, <<505, 543, 2, -1>>,
      <<547, 563, 2, -1>>, <<572, 572, 1, -1>>, <<575, 576, 1, 10815>>,
      <<578, 578, 1, -1>>, <<583, 591, 2, -1>>, <<592, 592, 1, 10783>>,
      <<593, 593, 1, 10780>>, <<594, 594, 1, 10782>>, <<595, 595, 1, -210>>,
      <<596, 596, 1, -206>>, <<598, 599, 1, -205>>, <<601, 601, 1, -202>>,
      <<603, 603, 1, -203>>, <<604, 604, 1, 42319>>, <<608, 608, 1, -205>>,
      <<609, 609, 1, 42315>>, <<611, 611, 1, -207>>, <<613, 613, 1, 42280>>,
      <<614, 614, 1, 42308>>, <<616, 616, 1, -209>>, <<617, 617, 1, -211>>,
      <<618, 618, 1, 42308>>, <<619, 619, 1, 10743>>, <<620, 620, 1, 42305>>,
      <<623, 623, 1, -211>>, <<625, 625, 1, 10749>>, <<626, 626, 1, -213>>,
      <<629, 629, 1, -214>>, <<637, 637, 1, 10727>>, <<640, 640, 1, -218>>,
      <<642, 642, 1, 42307>>, <<643, 643, 1, -218>>, <<647, 647, 1, 42282>>,
      <<648, 648, 1, -218>>, <<649, 649, 1, -69>>, <<650, 651, 1, -217>>,
      <<652, 652, 1, -71>>, <<658, 658, 1, -219>>, <<669, 669, 1, 42261>>,
      <<670, 670, 1, 42258>>, <<837, 837, 1, 84>>, <<881, 883, 2, -1>>,
      <<887, 887, 1, -1>>, <<891, 893, 1, 130>>, <<940, 940, 1, -38>>,
      <<941, 943, 1, -37>>, <<945, 961, 1, -32>>, <<962, 962, 1, -31>>,
      <<963, 971, 1, -32>>, <<972, 972, 1, -64>>, <<973, 974, 1, -63>>,
      <<976, 976, 1, -62>>, <<977, 977, 1, -57>>, <<981, 981, 1, -47>>,
      <<982, 982, 1, -54>>, <<983, 983, 1, -8>>, <<985, 1007, 2, -1>>,
      <<1008, 1008, 1, -86>>, <<1009, 1009, 1, -80>>, <<1010, 1010, 1, 7>>,
      <<1011, 1011, 1, -116>>, <<1013, 1013, 1, -96>>, <<1016, 1016, 1, -1>>,
      <<1019, 1019, 1, -1>>, <<1072, 1103, 1, -32>>, <<1104, 1119, 1, -80>>,
      <<1121, 1153, 2, -1>>, <<1163, 1215, 2, -1>>, <<1218, 1230, 2, -1>>,
      <<1231, 1231, 1, -15>>, <<1233, 1327, 2, -1>>, <<1377, 1414, 1, -48>>,
      <<4304, 4346, 1, 3008>>, <<4349, 4351, 1, 3008>>,
      <<5112, 5117, 1, -8>>, <<7296, 7296, 1, -6254>>,
      <<7297, 7297, 1, -6253>>, <<7298, 7298, 1, -6244>>,
      <<7299, 7300, 1, -6242>>, <<7301, 7301, 1, -6243>>,
      <<7302, 7302, 1, -6236>>, <<7303, 7303, 1, -6181>>,
      <<7304, 7304, 1, 35266>>, <<7545, 7545, 1, 35332>>,
      <<7549, 7549, 1, 3814>>, <<7566, 7566, 1, 35384>>,
      <<7681, 7829, 2, -1>>, <<7835, 7835, 1, -59>>, <<7841, 7935, 2, -1>>,
      <<7936, 7943, 1, 8>>, <<7952, 7957, 1, 8>>, <<7968, 7975, 1, 8>>,
      <<7984, 7991, 1, 8>>, <<8000, 8005, 1, 8>>, <<8017, 8023, 2, 8>>,
      <<8032, 8039, 1, 8>>, <<8048, 8049, 1, 74>>, <<8050, 8053, 1, 86>>,
      <<8054, 8055, 1, 100>>, <<8056, 8057, 1, 128>>, <<8058, 8059, 1, 112>>,
      <<8060, 8061, 1, 126>>, <<8112, 8113, 1, 8>>, <<8126, 8126, 1, -7205>>,
      <<8144, 8145, 1, 8>>, <<8160, 8161, 1, 8>>, <<8165, 8165, 1, 7>>,
      <<8526, 8526, 1, -28>>, <<8560, 8575, 1, -16>>, <<8580, 8580, 1, -1>>,
      <<9424, 9449, 1, -26>>, <<11312, 11359, 1, -48>>,
      <<11361, 11361, 1, -1>>, <<11365, 11365, 1, -10795>>,
      <<11366, 11366, 1, -10792>>, <<11368, 11372, 2, -1>>,
      <<11379, 11379, 1, -1>>, <<11382, 11382, 1, -1>>,
      <<11393, 11491, 2, -1>>, <<11500, 11502, 2, -1>>,
      <<11507, 11507, 1, -1>>, <<11520, 11557, 1, -7264>>,
      <<11559, 11559, 1, -7264>>, <<11565, 11565, 1, -7264>>,
      <<42561, 42605, 2, -1>>, <<42625, 42651, 2, -1>>,
      <<42787, 42799, 2, -1>>, <<42803, 42863, 2, -1>>,
      <<42874, 42876, 2, -1>>, <<42879, 42887, 2, -1>>,
      <<42892, 42892, 1, -1>>, <<42897, 42899, 2, -1>>,
      <<42900, 42900, 1, 48>>, <<42903, 42921, 2, -1>>,
      <<42933, 42947, 2, -1>>, <<42952, 42954, 2, -1>>,
      <<42961, 42961, 1, -1>>, <<42967, 42969, 2, -1>>,
      <<42998, 42998, 1, -1>>, <<43859, 43859, 1, -928>>,
      <<43888, 43967, 1, -38864>>, <<65345, 65370, 1, -32>>,
      <<66600, 66639, 1, -40>>, <<66776, 66811, 1, -40>>,
      <<66967, 66977, 1, -39>>, <<66979, 66993, 1, -39>>,
      <<66995, 67001, 1, -39>>, <<67003, 67004, 1, -39>>,
      <<68800, 68850, 1, -64>>, <<71872, 71903, 1, -32>>,
      <<93792, 93823, 1, -32>>, <<125218, 125251, 1, -34>>
    }

SpecialCasing ==
    {
      <<223, <<83, 83>>>>, <<329, <<700, 78>>>>, <<496, <<74, 780>>>>,
      <<912, <<921, 776, 769>>>>, <<944, <<933, 776, 769>>>>,
      <<1415, <<1333, 1362>>>>, <<7830, <<72, 817>>>>, <<7831, <<84, 776>>>>,
      <<7832, <<87, 778>>>>, <<7833, <<89, 778>>>>, <<7834, <<65, 702>>>>,
      <<8016, <<933, 787>>>>, <<8018, <<933, 787, 768>>>>,
      <<8020, <<933, 787, 769>>>>, <<8022, <<933, 787, 834>>>>,
      <<8064, <<7944, 921>>>>, <<8065, <<7945, 921>>>>,
      <<8066, <<7946, 921>>>>, <<8067, <<7947, 921>>>>,
      <<8068, <<7948, 921>>>>, <<8069, <<7949, 921>>>>,
      <<8070, <<7950, 921>>>>, <<8071, <<7951, 921>>>>,
      <<8072, <<7944, 921>>>>, <<8073, <<7945, 921>>>>,
      <<8074, <<7946, 921>>>>, <<8075, <<7947, 921>>>>,
      <<8076, <<7948, 921>>>>, <<8077, <<7949, 921>>>>,
      <<8078, <<7950, 921>>>>, <<8079, <<7951, 921>>>>,
      <<8080, <<7976, 921>>>>, <<8081, <<7977, 921>>>>,
      <<8082, <<7978, 921>>>>, <<8083, <<7979, 921>>>>,
      <<8084, <<7980, 921>>>>, <<8085, <<7981, 921>>>>,
      <<8086, <<7982, 921>>>>, <<8087, <<7983, 921>>>>,
      <<8088, <<7976, 921>>>>, <<8089, <<7977, 921>>>>,
      <<8090, <<7978, 921>>>>, <<8091, <<7979, 921>>>>,
      <<8092, <<7980, 921>>>>, <<8093, <<7981, 921>>>>,
      <<8094, <<7982, 921>>>>, <<8095, <<7983, 921>>>>,
      <<8096, <<8040, 921>>>>, <<8097, <<8041, 921>>>>,
      <<8098, <<8042, 921>>>>, <<8099, <<8043, 921>>>>,
      <<8100, <<8044, 921>>>>, <<8101, <<8045, 921>>>>,
      <<8102, <<8046, 921>>>>, <<8103, <<8047, 921>>>>,
      <<8104, <<8040, 921>>>>, <<8105, <<8041, 921>>>>,
      <<8106, <<8042, 921>>>>, <<8107, <<8043, 921>>>>,
      <<8108, <<8044, 921>>>>, <<8109, <<8045, 921>>>>,
      <<8110, <<8046, 921>>>>, <<8111, <<8047, 921>>>>,
      <<8114, <<8122, 921>>>>, <<8115, <<913, 921>>>>,
      <<8116, <<902, 921>>>>, <<8118, <<913, 834>>>>,
      <<8119, <<913, 834, 921>>>>, <<8124, <<913, 921>>>>,
      <<8130, <<8138, 921>>>>, <<8131, <<919, 921>>>>,
      <<8132, <<905, 921>>>>, <<8134, <<919, 834>>>>,
      <<8135, <<919, 834, 921>>>>, <<8140, <<919, 921>>>>,
      <<8146, <<921, 776, 768>>>>, <<8147, <<921, 776, 769>>>>,
      <<8150, <<921, 834>>>>, <<8151, <<921, 776, 834>>>>,
      <<8162, <<933, 776, 768>>>>, <<8163, <<933, 776, 769>>>>,
      <<8164, <<929, 787>>>>, <<8166, <<933, 834>>>>,
      <<8167, <<933, 776, 834>>>>, <<8178, <<8186, 921>>>>,
      <<8179, <<937, 921>>>>, <<8180, <<911, 921>>>>, <<8182, <<937, 834>>>>,
      <<8183, <<937, 834, 921>>>>, <<8188, <<937, 921>>>>,
      <<64256, <<70, 70>>>>, <<64257, <<70, 73>>>>, <<64258, <<70, 76>>>>,
      <<64259, <<70, 70, 73>>>>, <<64260, <<70, 70, 76>>>>,
      <<64261, <<83, 84>>>>, <<64262, <<83, 84>>>>,
      <<64275, <<1348, 1350>>>>, <<64276, <<1348, 1333>>>>,
      <<64277, <<1348, 1339>>>>, <<64278, <<1358, 1350>>>>,
      <<64279, <<1348, 1341>>>>
    }

\* chr(c).upper(), as a string
upper_char(c) ==
    LET special == {e \in SpecialCasing : e[1] = c}
        runs == {r \in ToUppercase :
                    r[1] <= c /\ c <= r[2] /\ (c - r[1]) % r[3] = 0}
    IN IF special # {} THEN (CHOOSE e \in special : TRUE)[2]
       ELSE IF runs # {} THEN <<c + (CHOOSE r \in runs : TRUE)[4]>>
       ELSE <<c>>

RECURSIVE upper(_)
upper(s) == IF s = <<>> THEN <<>>
            ELSE upper_char(Head(s)) \o upper(Tail(s))

\* ''.join(line.strip() for line in lines if not line.startswith('>'))
RECURSIVE load_reference_sequence(_)
load_reference_sequence(lines) ==
    IF lines = <<>> THEN <<>>
    ELSE (IF Len(Head(lines)) > 0 /\ Head(lines)[1] = 62 THEN <<>>
          ELSE strip(Head(lines)))
         \o load_reference_sequence(Tail(lines))

\* The validation with any() for all().
valid_sequence_any(s) == \E i \in 1..Len(s) : s[i] \in DNA

\* all(base in "ATGC" for base in user_sequence)
valid_sequence(s) == \A i \in 1..Len(s) : s[i] \in DNA

(***************************************************************************)
(* Inputs.                                                                 *)
(***************************************************************************)

\* The characters of a typed line: the bases, a lowercase base (g), a
\* letter that is no base (N), the space and the tab.
RawChars == DNA \cup {103, 78, 32, 9}
RawInputs == SeqsOver(RawChars, MaxLen)

\* Standard input as the lines input() can read from it, each without its
\* line end: no line (end of file), or the line typed.
Stdins == {<<>>} \cup {<<line>> : line \in RawInputs}

\* Contents of cancer_lung.fna, as the lines readlines() returns:
\* ">hdr\n" "ATG\n" "C\n";  ">hdr\n";  "AT\n";  " GA\n" ">x\n" "\tT\n"
ReferenceFiles ==
    { << <<62, 104, 100, 114, 10>>, <<65, 84, 71, 10>>, <<67, 10>> >>,
      << <<62, 104, 100, 114, 10>> >>,
      << <<65, 84, 10>> >>,
      << <<32, 71, 65, 10>>, <<62, 120, 10>>, <<9, 84, 10>> >> }

Sequences == SeqsOver(DNA, MaxLen)

\* Longer pairs: a query that agrees with the reference in 9 of 10 bases, the
\* 14 base sequence against itself, ATGC against ATGG, a sequence with its
\* occurrence inside a longer one.
s_ATGCGTACGT == <<65, 84, 71, 67, 71, 84, 65, 67, 71, 84>>
s_ATGCGTACGA == <<65, 84, 71, 67, 71, 84, 65, 67, 71, 65>>
s_14 == <<65, 84, 71, 67, 71, 84, 65, 67, 71, 84, 84, 65, 71, 67>>
s_ATGC == <<65, 84, 71, 67>>
s_ATGG == <<65, 84, 71, 71>>
s_AAATGCAAA == <<65, 65, 65, 84, 71, 67, 65, 65, 65>>
s_TGC == <<84, 71, 67>>

\* A query of AutojunkMinLen bases: one T, then A throughout.
s_long == <<84>> \o Rep(65, AutojunkMinLen - 1)

SimilarityPairs ==
    (Sequences \X Sequences)
    \cup {<<s_ATGCGTACGT, s_ATGCGTACGA>>, <<s_14, s_14>>,
          <<Rep(65, MaxLen), s_long>>, <<s_long, Rep(65, MaxLen)>>,
          <<<<84, 65>>, s_long>>, <<<<>>, s_long>>, <<s_long, <<>>>>}

AlignmentPairs ==
    (Sequences \X Sequences)
    \cup {<<s_14, s_14>>, <<s_ATGC, s_ATGG>>, <<s_ATGC, s_ATGC>>,
          <<s_AAATGCAAA, s_TGC>>}

(***************************************************************************)
(* State.                                                                  *)
(***************************************************************************)

Unset == [exc |-> "unset"]
NoSimilarity == [num |-> -1, den |-> 1]

\* main, before its first statement; file_lines is the content of the
\* reference file, stdin the lines standard input holds.
Init ==
    /\ pc = "start"
    /\ fn = "main"
    /\ file_exists \in BOOLEAN
    /\ load_ok \in BOOLEAN
    /\ reference_sequence \in ReferenceFiles
    /\ stdin \in Stdins
    /\ user_sequence = <<>>
    /\ similarity = NoSimilarity
    /\ is_infected = FALSE
    /\ global_result = Unset
    /\ local_result = Unset
    /\ output = <<"banner">>
    /\ exc = "none"
    /\ calls = <<>>

\* if not os.path.exists(filepath): print error, return
CheckFile ==
    /\ pc = "start"
    /\ IF file_exists
       THEN /\ pc' = "load"
            /\ output' = output
       ELSE /\ pc' = "exit"
            /\ output' = Append(output, "error_not_found")
    /\ UNCHANGED <<fn, file_exists, load_ok, reference_sequence, stdin,
                   user_sequence, similarity, is_infected, global_result,
                   local_result, exc, calls>>

\* try: reference_sequence = load_reference_sequence(filepath)
\* except Exception: print error, return
\* Before this step reference_sequence holds the file's lines.
LoadReference ==
    /\ pc = "load"
    /\ IF load_ok
       THEN /\ pc' = "input"
            /\ reference_sequence' = load_reference_sequence(reference_sequence)
            /\ output' = Append(output, "loaded")
       ELSE /\ pc' = "exit"
            /\ reference_sequence' = reference_sequence
            /\ output' = Append(output, "error_load")
    /\ UNCHANGED <<fn, file_exists, load_ok, stdin, user_sequence,
                   similarity, is_infected, global_result, local_result,
                   exc, calls>>

\* user_sequence = input(...).strip().upper(); the validation of its bases.
\* At the end of standard input input() raises EOFError, which main does
\* not catch.
ReadInput ==
    /\ pc = "input"
    /\ IF stdin = <<>>
       THEN /\ pc' = "crashed"
            /\ exc' = "EOFError"
            /\ UNCHANGED <<user_sequence, output>>
       ELSE /\ user_sequence' = upper(strip(Head(stdin)))
            /\ exc' = exc
            /\ IF valid_sequence(user_sequence')
               THEN /\ pc' = "check"
                    /\ output' = output
               ELSE /\ pc' = "exit"
                    /\ output' = Append(output, "error_invalid")
    /\ UNCHANGED <<fn, file_exists, load_ok, reference_sequence, stdin,
                   similarity, is_infected, global_result, local_result,
                   calls>>

\* is_infected, similarity = check_infection(reference_sequence, user_sequence)
CheckInfection ==
    /\ pc = "check"
    /\ LET r == check_infection(reference_sequence, user_sequence)
       IN /\ is_infected' = r.is_infected
          /\ similarity' = r.similarity
    /\ calls' = Append(calls, "check_infection")
    /\ pc' = "global"
    /\ UNCHANGED <<fn, file_exists, load_ok, reference_sequence, stdin,
                   user_sequence, global_result, local_result, output, exc>>

\* global_alignment, global_score = perform_global_alignment(...); an
\* exception it raises is not caught and ends main
GlobalAlignment ==
    /\ pc = "global"
    /\ \E r \in perform_global_alignment(reference_sequence, user_sequence) :
          /\ global_result' = r
          /\ exc' = r.exc
          /\ pc' = IF r.exc = "none" THEN "local" ELSE "crashed"
    /\ calls' = Append(calls, "perform_global_alignment")
    /\ UNCHANGED <<fn, file_exists, load_ok, reference_sequence, stdin,
                   user_sequence, similarity, is_infected, local_result,
                   output>>

\* local_alignment, local_score = perform_local_alignment(...)
LocalAlignment ==
    /\ pc = "local"
    /\ \E r \in perform_local_alignment(reference_sequence, user_sequence) :
          /\ local_result' = r
          /\ exc' = r.exc
          /\ pc' = IF r.exc = "none" THEN "print" ELSE "crashed"
    /\ calls' = Append(calls, "perform_local_alignment")
    /\ UNCHANGED <<fn, file_exists, load_ok, reference_sequence, stdin,
                   user_sequence, similarity, is_infected, global_result,
                   output>>

\* The prints of the results.
DisplayResults ==
    /\ pc = "print"
    /\ output' = output \o <<"analysis_results",
                             (IF is_infected THEN "infected"
                              ELSE "not_infected"),
                             "global_alignment", "local_alignment">>
    /\ pc' = "done"
    /\ UNCHANGED <<fn, file_exists, load_ok, reference_sequence, stdin,
                   user_sequence, similarity, is_infected, global_result,
                   local_result, exc, calls>>

Next ==
    \/ CheckFile
    \/ LoadReference
    \/ ReadInput
    \/ CheckInfection
    \/ GlobalAlignment
    \/ LocalAlignment
    \/ DisplayResults

Spec == Init /\ [][Next]_vars

(***************************************************************************)
(* The functions called on their own, on any pair of sequences.            *)
(***************************************************************************)

InitCall(fns, pairs) ==
    /\ pc = "call"
    /\ fn \in fns
    /\ \E p \in pairs : reference_sequence = p[1] /\ user_sequence = p[2]
    /\ file_exists = TRUE
    /\ load_ok = TRUE
    /\ stdin = <<>>
    /\ similarity = NoSimilarity
    /\ is_infected = FALSE
    /\ global_result = Unset
    /\ local_result = Unset
    /\ output = <<>>
    /\ exc = "none"
    /\ calls = <<>>

InitSimilarity ==
    InitCall({"calculate_similarity", "check_infection"}, SimilarityPairs)

\* The similarity functions on sequences that all stay below
\* AutojunkMinLen.
InitSimilarityShort ==
    InitCall({"calculate_similarity", "check_infection"},
             (Sequences \X Sequences)
             \cup {<<s_ATGCGTACGT, s_ATGCGTACGA>>, <<s_14, s_14>>})

InitAlignment ==
    InitCall({"perform_global_alignment", "perform_local_alignment"},
             AlignmentPairs)

CallCalculateSimilarity ==
    /\ pc = "call" /\ fn = "calculate_similarity"
    /\ similarity' = calculate_similarity(reference_sequence, user_sequence)
    /\ pc' = "returned"
    /\ calls' = Append(calls, fn)
    /\ UNCHANGED <<fn, file_exists, load_ok, reference_sequence, stdin,
                   user_sequence, is_infected, global_result, local_result,
                   output, exc>>

CallCheckInfection ==
    /\ pc = "call" /\ fn = "check_infection"
    /\ LET r == check_infection(reference_sequence, user_sequence)
       IN /\ is_infected' = r.is_infected
          /\ similarity' = r.similarity
    /\ pc' = "returned"
    /\ calls' = Append(calls, fn)
    /\ UNCHANGED <<fn, file_exists, load_ok, reference_sequence, stdin,
                   user_sequence, global_result, local_result, output, exc>>

CallGlobalAlignment ==
    /\ pc = "call" /\ fn = "perform_global_alignment"
    /\ \E r \in perform_global_alignment(reference_sequence, user_sequence) :
          /\ global_result' = r
          /\ exc' = r.exc
          /\ pc' = IF r.exc = "none" THEN "returned" ELSE "raised"
    /\ calls' = Append(calls, fn)
    /\ UNCHANGED <<fn, file_exists, load_ok, reference_sequence, stdin,
                   user_sequence, similarity, is_infected, local_result,
                   output>>

CallLocalAlignment ==
    /\ pc = "call" /\ fn = "perform_local_alignment"
    /\ \E r \in perform_local_alignment(reference_sequence, user_sequence) :
          /\ local_result' = r
          /\ exc' = r.exc
          /\ pc' = IF r.exc = "none" THEN "returned" ELSE "raised"
    /\ calls' = Append(calls, fn)
    /\ UNCHANGED <<fn, file_exists, load_ok, reference_sequence, stdin,
                   user_sequence, similarity, is_infected, global_result,
                   output>>

NextSimilarity == CallCalculateSimilarity \/ CallCheckInfection

NextAlignment == CallGlobalAlignment \/ CallLocalAlignment

SpecSimilarity == InitSimilarity /\ [][NextSimilarity]_vars

SpecSimilarityShort == InitSimilarityShort /\ [][NextSimilarity]_vars

SpecAlignment == InitAlignment /\ [][NextAlignment]_vars

(***************************************************************************)
(* Properties.                                                             *)
(***************************************************************************)

Returned(f) == pc = "returned" /\ fn = f
Finished(f) == pc \in {"returned", "raised"} /\ fn = f

\* Equality of two rationals
RatEq(x, y) == x.num * y.den = y.num * x.den

InUnitRange(x) == 0 <= x.num /\ x.num <= 100 * x.den /\ x.den > 0

Degap(s) == SelectSeq(s, LAMBDA c : c # gap_char)

\* C1: check_infection reports infected exactly when the similarity
\* percentage is below 90: with M matched characters out of a total length
\* T > 0 that is 200 * M / T < 90, i.e. 20 * M < 9 * T; a similarity of
\* exactly 90 and one of 100 are not infected.
C1_StrictThreshold ==
    Returned("check_infection") =>
        LET M == matches(reference_sequence, user_sequence)
            T == Len(reference_sequence) + Len(user_sequence)
        IN /\ InUnitRange(similarity)
           /\ is_infected <=> (T # 0 /\ 20 * M < 9 * T)
           /\ is_infected <=> (similarity.num < 90 * similarity.den)
           /\ (similarity.num = 90 * similarity.den) => ~is_infected
           /\ (similarity.num = 100 * similarity.den) => ~is_infected

\* C1, witness: check_infection has returned on a pair whose similarity is
\* exactly 90 percent, and reports not infected.
C1_Witness ==
    /\ Returned("check_infection")
    /\ similarity.num = 90 * similarity.den
    /\ ~is_infected

\* C2: on an empty sequence neither alignment function raises; the global
\* one returns score 0 with the other sequence against gaps only, the local
\* one an empty alignment with score 0.
C2_EmptyInputDefined ==
    (/\ pc \in {"returned", "raised"}
     /\ (reference_sequence = <<>> \/ user_sequence = <<>>)) =>
        /\ exc = "none"
        /\ fn = "perform_global_alignment" =>
              /\ global_result.alignment_score = 0
              /\ Degap(global_result.best_alignment.seqA) = reference_sequence
              /\ Degap(global_result.best_alignment.seqB) = user_sequence
              /\ Len(global_result.best_alignment.seqA)
                    = Len(reference_sequence) + Len(user_sequence)
        /\ fn = "perform_local_alignment" =>
              /\ local_result.alignment_score = 0
              /\ local_result.best_alignment.seqA = <<>>
              /\ local_result.best_alignment.seqB = <<>>

\* The length of the common block of a and b that starts at a[i], b[j]
\* within a[..ahi), b[..bhi)
RECURSIVE CommonLen(_, _, _, _, _, _)
CommonLen(a, b, i, j, ahi, bhi) ==
    IF i < ahi /\ j < bhi /\ a[i + 1] = b[j + 1]
    THEN 1 + CommonLen(a, b, i + 1, j + 1, ahi, bhi)
    ELSE 0

\* The totals the block matching of the specification can give on
\* a[alo..ahi), b[blo..bhi): take a longest common block, any of them when
\* several are longest, and add the totals of the two remainders.
RECURSIVE BlockTotals(_, _, _, _, _, _)
BlockTotals(a, b, alo, ahi, blo, bhi) ==
    LET cells == (alo..(ahi - 1)) \X (blo..(bhi - 1))
        len(c) == CommonLen(a, b, c[1], c[2], ahi, bhi)
        k == IF cells = {} THEN 0 ELSE SetMax({len(c) : c \in cells})
    IN IF k = 0 THEN {0}
       ELSE UNION {
              {k + l + r :
                 l \in BlockTotals(a, b, alo, c[1], blo, c[2]),
                 r \in BlockTotals(a, b, c[1] + k, ahi, c[2] + k, bhi)}
              : c \in {d \in cells : len(d) = k}}

\* C3: calculate_similarity(a, b) is 100 * 2 * M / T with T = |a| + |b| and
\* M the total length of the blocks found by taking the longest matching
\* block and recursing on the remainders to its left and right; 100 when
\* both are empty, 0 when exactly one is.
C3_BlockSimilarity ==
    Returned("calculate_similarity") =>
        LET a == reference_sequence
            b == user_sequence
            T == Len(a) + Len(b)
        IN /\ T = 0 => RatEq(similarity, [num |-> 100, den |-> 1])
           /\ (T # 0 /\ (a = <<>> \/ b = <<>>)) => similarity.num = 0
           /\ T # 0 =>
                \E M \in BlockTotals(a, b, 0, Len(a), 0, Len(b)) :
                    RatEq(similarity, [num |-> 200 * M, den |-> T])

\* C4, as stated: calculate_similarity(a, b) = calculate_similarity(b, a)
\* for all a, b.
C4_Symmetric ==
    Returned("calculate_similarity") =>
        RatEq(similarity,
              calculate_similarity(user_sequence, reference_sequence))

\* No element of s is dropped from the match index when s is the second
\* sequence
NoPopular(s) == bpopular(s) = {}

\* C4, amended: calculate_similarity(a, b) = calculate_similarity(b, a)
\* whenever a = b, or a or b is empty, or no base of a or b is dropped from
\* the match index as too frequent (both shorter than 200) and the block
\* matching of a and b has one total M whichever of several longest
\* blocks is taken; the common value is then 100 * 2 * M / (|a| + |b|),
\* 100 for two empty sequences.
C4_SymmetricUnlessTies ==
    Returned("calculate_similarity") =>
        LET a == reference_sequence
            b == user_sequence
            T == Len(a) + Len(b)
            swapped == calculate_similarity(b, a)
        IN /\ (a = b \/ a = <<>> \/ b = <<>>) => RatEq(similarity, swapped)
           /\ (a = <<>> /\ b = <<>>) =>
                 RatEq(similarity, [num |-> 100, den |-> 1])
           /\ (a = <<>>) # (b = <<>>) =>
                 RatEq(similarity, [num |-> 0, den |-> 1])
           /\ (/\ NoPopular(a) /\ NoPopular(b)
               /\ Cardinality(BlockTotals(a, b, 0, Len(a), 0, Len(b))) = 1) =>
                 /\ RatEq(similarity, swapped)
                 /\ T # 0 =>
                       \A M \in BlockTotals(a, b, 0, Len(a), 0, Len(b)) :
                           /\ RatEq(similarity, [num |-> 200 * M, den |-> T])
                           /\ RatEq(swapped, [num |-> 200 * M, den |-> T])

\* C4, witness: calculate_similarity has returned on two different
\* non-empty sequences that share bases without one holding the other in
\* full (several longest blocks to choose from, as in AT and TA), whose
\* block total is the same whichever is taken, and the result is the one
\* of the swapped call.
C4_Witness ==
    /\ Returned("calculate_similarity")
    /\ reference_sequence # user_sequence
    /\ reference_sequence # <<>> /\ user_sequence # <<>>
    /\ NoPopular(reference_sequence) /\ NoPopular(user_sequence)
    /\ Cardinality(BlockTotals(reference_sequence, user_sequence, 0,
                               Len(reference_sequence), 0,
                               Len(user_sequence))) = 1
    /\ similarity.num > 0
    /\ similarity.num * 1 < 100 * similarity.den
    /\ Len(reference_sequence) = Len(user_sequence)
    /\ Range(reference_sequence) = Range(user_sequence)
    /\ RatEq(similarity,
             calculate_similarity(user_sequence, reference_sequence))

\* The Needleman-Wunsch matrix of the specification, row by row:
\* D[0][0] = 0, D[i][0] = D[i-1][0] + gap, D[0][j] = D[0][j-1] + gap,
\* D[i][j] = max(D[i-1][j-1] + s, D[i-1][j] + gap, D[i][j-1] + gap); with a
\* floor of 0 and zero borders for Smith-Waterman.
RECURSIVE SpecRow(_, _, _, _, _, _)
SpecRow(a, b, i, above, cur, floor) ==
    IF Len(cur) > Len(b) THEN cur
    ELSE LET j == Len(cur)
             d == Max3(above[j] + (IF a[i] = b[j] THEN 1 ELSE 0),
                       above[j + 1] + 0, cur[j] + 0)
         IN SpecRow(a, b, i, above,
                    Append(cur, IF floor THEN Max(0, d) ELSE d), floor)

RECURSIVE SpecRows(_, _, _, _)
SpecRows(a, b, D, floor) ==
    IF Len(D) > Len(a) THEN D
    ELSE SpecRows(a, b,
                  Append(D, SpecRow(a, b, Len(D), D[Len(D)], <<0>>, floor)),
                  floor)

SpecD(a, b, floor) == SpecRows(a, b, <<[j \in 1..(Len(b) + 1) |-> 0]>>, floor)

\* C5: perform_global_alignment returns the score D[|a|][|b|] of the
\* Needleman-Wunsch recurrence for all a, b; |s| when a = b = s, 3 for ATGC
\* against ATGG.
C5_GlobalScore ==
    Finished("perform_global_alignment") =>
        LET a == reference_sequence
            b == user_sequence
        IN /\ exc = "none"
           /\ global_result.alignment_score
                 = SpecD(a, b, FALSE)[Len(a) + 1][Len(b) + 1]
           /\ a = b => global_result.alignment_score = Len(a)
           /\ (a = s_ATGC /\ b = s_ATGG) => global_result.alignment_score = 3

\* C5 on non-empty sequences: the returned score is D[|a|][|b|].
C5_GlobalScoreWhenReturned ==
    Returned("perform_global_alignment") =>
        LET a == reference_sequence
            b == user_sequence
        IN /\ a # <<>> /\ b # <<>>
           /\ global_result.alignment_score
                 = SpecD(a, b, FALSE)[Len(a) + 1][Len(b) + 1]
           /\ a = b => global_result.alignment_score = Len(a)
           /\ (a = s_ATGC /\ b = s_ATGG) => global_result.alignment_score = 3

\* C6: once main has called both alignment functions,
\* 0 <= local score <= global score <= min(|a|, |b|) * match_score, for all
\* sequences a, b.
C6_ScoreOrder ==
    (pc \in {"print", "done", "crashed"} /\ calls # <<>>) =>
        /\ exc = "none"
        /\ 0 <= local_result.alignment_score
        /\ local_result.alignment_score <= global_result.alignment_score
        /\ global_result.alignment_score
              <= Min(Len(reference_sequence), Len(user_sequence)) * 1

\* C6 on the runs where both functions returned.
C6_ScoreOrderWhenReturned ==
    (pc \in {"print", "done"}) =>
        /\ 0 < local_result.alignment_score
        /\ local_result.alignment_score <= global_result.alignment_score
        /\ global_result.alignment_score
              <= Min(Len(reference_sequence), Len(user_sequence)) * 1

\* The alignment of the specification's traceback from (i, j): diagonal
\* if it keeps the score, else up, else left.
RECURSIVE PreferredAlignment(_, _, _, _, _)
PreferredAlignment(a, b, D, i, j) ==
    IF i = 0 /\ j = 0 THEN [seqA |-> <<>>, seqB |-> <<>>]
    ELSE LET mv == IF /\ i > 0 /\ j > 0
                      /\ D[i][j] + (IF a[i] = b[j] THEN 1 ELSE 0)
                            = D[i + 1][j + 1]
                   THEN "d"
                   ELSE IF i > 0 /\ D[i][j + 1] = D[i + 1][j + 1]
                   THEN "u" ELSE "l"
             rest == PreferredAlignment(a, b, D, PrevI(i, mv), PrevJ(j, mv))
         IN [seqA |-> Append(rest.seqA, IF mv = "l" THEN gap_char ELSE a[i]),
             seqB |-> Append(rest.seqB, IF mv = "u" THEN gap_char ELSE b[j])]

\* C7: for all a, b perform_global_alignment has a best alignment; its two
\* strings have the same length and are a and b once the gaps are removed,
\* and the traceback that prefers diagonal, then up, then left is one the
\* function can return.
C7_BestAlignment ==
    Finished("perform_global_alignment") =>
        LET a == reference_sequence
            b == user_sequence
        IN /\ exc = "none"
           /\ Len(global_result.best_alignment.seqA)
                 = Len(global_result.best_alignment.seqB)
           /\ Degap(global_result.best_alignment.seqA) = a
           /\ Degap(global_result.best_alignment.seqB) = b
           /\ \E r \in perform_global_alignment(a, b) :
                 LET p == PreferredAlignment(a, b, SpecD(a, b, FALSE),
                                             Len(a), Len(b))
                 IN /\ r.best_alignment.seqA = p.seqA
                    /\ r.best_alignment.seqB = p.seqB

\* C7 on non-empty sequences: the strings of the best alignment have the
\* same length and are a and b once the gaps are removed.
C7_BestAlignmentWhenReturned ==
    Returned("perform_global_alignment") =>
        /\ Len(global_result.best_alignment.seqA)
              = Len(global_result.best_alignment.seqB)
        /\ Degap(global_result.best_alignment.seqA) = reference_sequence
        /\ Degap(global_result.best_alignment.seqB) = user_sequence

\* The alignment al of a and b spells a and b in full, and its start and
\* end cover just the aligned region: the columns from start to end begin
\* and end with two equal bases and hold as many columns of equal bases as
\* the score.
CoversRegion(al, a, b) ==
    /\ Len(al.seqA) = Len(al.seqB)
    /\ Degap(al.seqA) = a /\ Degap(al.seqB) = b
    /\ 0 <= al.start /\ al.start < al.end /\ al.end <= Len(al.seqA)
    /\ al.seqA[al.start + 1] = al.seqB[al.start + 1]
    /\ al.seqA[al.end] = al.seqB[al.end]
    /\ al.seqA[al.start + 1] # gap_char /\ al.seqA[al.end] # gap_char
    /\ Cardinality({k \in (al.start + 1)..al.end :
                       al.seqA[k] = al.seqB[k] /\ al.seqA[k] # gap_char})
          = al.score

\* b occurs in a as a contiguous block
IsSubstring(b, a) ==
    \E lo \in 0..(Len(a) - Len(b)) : Slice(a, lo, lo + Len(b)) = b

\* C8: for all non-empty a, b perform_local_alignment returns the largest
\* value of the Smith-Waterman matrix as score, with offsets that cover
\* just the aligned region; when b is a contiguous block of a the score is
\* |b|.
C8_LocalScore ==
    (/\ Finished("perform_local_alignment")
     /\ reference_sequence # <<>> /\ user_sequence # <<>>) =>
        LET a == reference_sequence
            b == user_sequence
            al == local_result.best_alignment
        IN /\ exc = "none"
           /\ local_result.alignment_score = MatrixMax(SpecD(a, b, TRUE))
           /\ IsSubstring(b, a) => local_result.alignment_score = Len(b)
           /\ CoversRegion(al, a, b)

\* C8 on the calls that return: the score is the largest value of the
\* Smith-Waterman matrix.
C8_LocalScoreWhenReturned ==
    Returned("perform_local_alignment") =>
        LET a == reference_sequence
            b == user_sequence
            al == local_result.best_alignment
        IN /\ local_result.alignment_score = MatrixMax(SpecD(a, b, TRUE))
           /\ local_result.alignment_score > 0
           /\ IsSubstring(b, a) => local_result.alignment_score = Len(b)
           /\ CoversRegion(al, a, b)

\* The uppercased query has only the characters A, T, G, C
OnlyBases(line) ==
    LET q == upper(strip(line))
    IN \A i \in 1..Len(q) : q[i] \in {65, 84, 71, 67}

\* A query was typed and main's validation accepts it
QueryValid == stdin # <<>> /\ OnlyBases(Head(stdin))

\* A query was typed and it has a character outside A, T, G, C
QueryInvalid == stdin # <<>> /\ ~OnlyBases(Head(stdin))

IsError(tag) == tag \in {"error_not_found", "error_load", "error_invalid"}

\* C9: when the reference file is missing, loading it fails or the
\* uppercased query has a character outside A, T, G, C, main calls none of
\* check_infection, perform_global_alignment, perform_local_alignment and
\* prints no analysis results; it ends having reported an error.
C9_NoAnalysisOnRejectedInput ==
    (~file_exists \/ ~load_ok \/ QueryInvalid) =>
        /\ calls = <<>>
        /\ pc \in {"start", "load", "input", "exit"}
        /\ \A k \in 1..Len(output) : output[k] \in {"banner", "loaded"}
                                        \/ IsError(output[k])
        /\ pc = "exit" => IsError(output[Len(output)])
        /\ pc # "exit" => \A k \in 1..Len(output) : ~IsError(output[k])
        /\ similarity = NoSimilarity
        /\ global_result = Unset /\ local_result = Unset

\* C9, witness: main has ended on a query with a character outside
\* A, T, G, C, after loading the reference.
C9_Witness ==
    /\ pc = "exit"
    /\ file_exists /\ load_ok /\ QueryInvalid
    /\ output[Len(output)] = "error_invalid"
    /\ calls = <<>>

\* C10: every query the validation accepts, the empty one included, leads
\* to a completed run: no exception, and at the end check_infection, the
\* global and the local alignment were called in this order and the
\* results printed.
C10_AcceptedQueryCompletes ==
    (file_exists /\ load_ok /\ QueryValid) =>
        /\ exc = "none"
        /\ pc # "crashed"
        /\ pc = "done" =>
              /\ calls = <<"check_infection", "perform_global_alignment",
                           "perform_local_alignment">>
              /\ \E k \in 1..Len(output) : output[k] = "analysis_results"

\* C10 on the runs that end: they end printed, with the EOFError of input()
\* before any call, or with the exception of an alignment function, the
\* calls in order.
C10_CompletedRunsInOrder ==
    /\ pc = "done" =>
          /\ calls = <<"check_infection", "perform_global_alignment",
                       "perform_local_alignment">>
          /\ \E k \in 1..Len(output) : output[k] = "analysis_results"
    /\ pc = "crashed" => \/ /\ exc = "EOFError"
                            /\ stdin = <<>>
                            /\ calls = <<>>
                         \/ /\ exc = "IndexError"
                            /\ QueryValid
                            /\ calls[1] = "check_infection"
                            /\ calls[Len(calls)] # "check_infection"

====
